---- MODULE Spec2Model ----
(***************************************************************************)
(* Flyweight<struct_t> (aeron-common/src/main/cpp/common/Flyweight.h): a   *)
(* view binding a typed record reference and a copy of an AtomicBuffer     *)
(* handle to a base offset, with length-prefixed UTF-8 string accessors at *)
(* offsets relative to that base.  The AtomicBuffer itself                 *)
(* (concurrent/AtomicBuffer.h) is a collaborator whose code is not part of *)
(* the sources at hand; its three operations are modelled from the         *)
(* specification's description of them.                                    *)
(***************************************************************************)
EXTENDS Integers, Sequences, FiniteSets, TLC

VARIABLES heap, views, last, log

vars == <<heap, views, last, log>>

(***************************************************************************)
(* Bounds of the model.                                                    *)
(***************************************************************************)
Capacity == 10      \* bytes of the caller's buffer
MaxWrites == 2      \* successful writes in a run of the free specification
MaxLen == 1         \* characters of a string argument
SizeTBits == 6      \* width of size_t, scaled down from 64
ChainCapacity == 16 \* bytes of the buffer of the chaining scenario
RecordSize == 2     \* sizeof(struct_t) of the record type the views are over

\* The size of the length field in front of a string's bytes.
LengthPrefixSize == 4

SizeTMod == 2 ^ SizeTBits

\* View objects the caller may construct.
ViewIds == {1, 2}

\* Storage 0 is the memory the caller's buffer wraps.
Stores == {0} \cup ViewIds

\* Code points of the string arguments: 'a' and U+00E9 (two bytes in UTF-8).
Chars == {97, 233}

Strings == UNION {[1..n -> Chars] : n \in 0..MaxLen}

\* Offsets handed to the constructor (size_t).
BaseOffsets == {0, RecordSize, Capacity - 1}

\* Relative offsets handed to stringPut (int): one negative, the rest up to the
\* last one at which a view at RecordSize can still store an empty string.
PutOffsets == (-1)..(Capacity - LengthPrefixSize - RecordSize)

\* Relative offsets handed to stringGet (size_t): one past the last offset a
\* length field fits at, and the top of the type's range.
GetOffsets == (0..(Capacity - LengthPrefixSize - RecordSize + 1)) \cup {SizeTMod - 1}

\* Bytes a caller stores into a fixed field.
FieldValues == {1, 255}

\* The chaining scenario: strings that may also hold U+0000, the relative
\* offsets of the first field, and the relative offsets read.
ChainStrings == UNION {[1..n -> Chars \cup {0}] : n \in 0..MaxLen}

ChainBases == {0, RecordSize}

ChainOffsets == {-1, RecordSize}

ChainGetOffsets == (0..(ChainCapacity - LengthPrefixSize)) \cup {SizeTMod - 1}

(***************************************************************************)
(* UTF-8.                                                                  *)
(***************************************************************************)
Utf8Char(c) ==
    IF c < 128 THEN <<c>>
    ELSE IF c < 2048 THEN <<192 + (c \div 64), 128 + (c % 64)>>
    ELSE IF c < 65536
         THEN <<224 + (c \div 4096), 128 + ((c \div 64) % 64), 128 + (c % 64)>>
    ELSE <<240 + (c \div 262144), 128 + ((c \div 4096) % 64),
           128 + ((c \div 64) % 64), 128 + (c % 64)>>

RECURSIVE Utf8Encode(_)
Utf8Encode(s) ==
    IF s = <<>> THEN <<>> ELSE Utf8Char(Head(s)) \o Utf8Encode(Tail(s))

IsContinuation(b) == b >= 128 /\ b < 192

Utf8SeqLen(b1) ==
    IF b1 < 128 THEN 1
    ELSE IF b1 >= 194 /\ b1 < 224 THEN 2
    ELSE IF b1 >= 224 /\ b1 < 240 THEN 3
    ELSE IF b1 >= 240 /\ b1 < 245 THEN 4
    ELSE 0

Utf8CodePoint(b, n) ==
    IF n = 1 THEN b[1]
    ELSE IF n = 2 THEN (b[1] - 192) * 64 + (b[2] - 128)
    ELSE IF n = 3 THEN (b[1] - 224) * 4096 + (b[2] - 128) * 64 + (b[3] - 128)
    ELSE (b[1] - 240) * 262144 + (b[2] - 128) * 4096 + (b[3] - 128) * 64 + (b[4] - 128)

\* [ok, str]: the code points of a well-formed byte sequence, or ok = FALSE.
RECURSIVE Utf8Decode(_)
Utf8Decode(b) ==
    IF b = <<>> THEN [ok |-> TRUE, str |-> <<>>]
    ELSE LET n == Utf8SeqLen(b[1])
         IN IF n = 0 \/ Len(b) < n \/ \E i \in 2..n : ~IsContinuation(b[i])
            THEN [ok |-> FALSE, str |-> <<>>]
            ELSE LET cp == Utf8CodePoint(b, n)
                     wellFormed == /\ n = 3 => cp >= 2048 /\ ~(cp >= 55296 /\ cp < 57344)
                                   /\ n = 4 => cp >= 65536 /\ cp < 1114112
                     rest == Utf8Decode(SubSeq(b, n + 1, Len(b)))
                 IN IF wellFormed /\ rest.ok
                    THEN [ok |-> TRUE, str |-> <<cp>> \o rest.str]
                    ELSE [ok |-> FALSE, str |-> <<>>]

(***************************************************************************)
(* The buffer (concurrent::AtomicBuffer), as the specification describes   *)
(* it: a handle onto storage of fixed capacity, bounds-checked overlay of  *)
(* a record, and a length-prefixed UTF-8 string codec.                     *)
(***************************************************************************)
\* The handle the caller passes to every constructor.
CallerBuffer == [store |-> 0, capacity |-> Capacity]

\* The handle of the chaining scenario's buffer (the same storage, sized anew).
ChainBuffer == [store |-> 0, capacity |-> ChainCapacity]

\* Copying a handle duplicates the descriptor, not the storage.
CopyHandle(buffer) == buffer

\* A 32-bit length field in native (little-endian) byte order.
EncodeLength(n) ==
    <<n % 256, (n \div 256) % 256, (n \div 65536) % 256, (n \div 16777216) % 256>>

DecodeLength(b) ==
    b[1] + 256 * b[2] + 65536 * b[3]
         + 16777216 * (IF b[4] >= 128 THEN b[4] - 256 ELSE b[4])

\* The bytes mem[off .. off+n-1] as a sequence.
BytesAt(mem, off, n) == [i \in 1..n |-> mem[off + i - 1]]

\* mem with the sequence bytes stored from off on.
StoreBytes(mem, off, bytes) ==
    [i \in DOMAIN mem |->
        IF i >= off /\ i < off + Len(bytes) THEN bytes[i - off + 1] ELSE mem[i]]

\* An access of len bytes at off that does not lie within the capacity.
OutOfBounds(buffer, off, len) ==
    off < 0 \/ len < 0 \/ off > buffer.capacity \/ len > buffer.capacity - off

\* overlayStruct<struct_t>(offset): a reference onto the record's bytes.
overlayStruct(buffer, offset) ==
    IF OutOfBounds(buffer, offset, RecordSize)
    THEN [fault |-> "BoundsFault", ref |-> [store |-> buffer.store, at |-> 0]]
    ELSE [fault |-> "none", ref |-> [store |-> buffer.store, at |-> offset]]

\* getStringUtf8(offset): read the length field, then that many bytes, decode.
getStringUtf8(h, buffer, offset) ==
    LET mem == h[buffer.store]
        nothing == <<>>
    IN IF OutOfBounds(buffer, offset, LengthPrefixSize)
       THEN [fault |-> "BoundsFault", value |-> nothing]
       ELSE LET length == DecodeLength(BytesAt(mem, offset, LengthPrefixSize))
            IN IF OutOfBounds(buffer, offset + LengthPrefixSize, length)
               THEN [fault |-> "BoundsFault", value |-> nothing]
               ELSE LET d == Utf8Decode(BytesAt(mem, offset + LengthPrefixSize, length))
                    IN IF d.ok THEN [fault |-> "none", value |-> d.str]
                       ELSE [fault |-> "EncodingFault", value |-> nothing]

\* putStringUtf8(offset, value): write the byte length, then the bytes;
\* returns the size of the length field plus the size of the bytes.
putStringUtf8(h, buffer, offset, value) ==
    LET bytes == Utf8Encode(value)
        total == LengthPrefixSize + Len(bytes)
    IN IF OutOfBounds(buffer, offset, total)
       THEN [fault |-> "BoundsFault", value |-> 0, heap |-> h]
       ELSE [fault |-> "none", value |-> total,
             heap |-> [h EXCEPT ![buffer.store] =
                          StoreBytes(@, offset, EncodeLength(Len(bytes)) \o bytes)]]

(***************************************************************************)
(* Flyweight.                                                              *)
(***************************************************************************)
\* A view slot before its constructor has run (or after it has thrown).
NoView == [constructed |-> FALSE,
           m_struct |-> [store |-> 0, at |-> 0],
           m_buffer |-> CallerBuffer,
           m_baseOffset |-> 0]

\* The conversion of an int operand to size_t.
ToSizeT(i) == i % SizeTMod

\* (fault) stringGet passing its relative offset on as if it were absolute
GetOffset_NoBase(view, offset) == offset % SizeTMod

\* (fault) stringGet adding in a type wider than size_t, so that nothing wraps
GetOffset_NoWrap(view, offset) == view.m_baseOffset + offset

\* m_baseOffset + offset in stringGet: both operands are size_t.
GetOffset(view, offset) == (view.m_baseOffset + offset) % SizeTMod

\* (fault) stringPut passing its relative offset on as if it were absolute
PutOffset_NoBase(view, offset) == ToSizeT(offset)

\* (fault) stringPut starting one byte late
PutOffset_OffByOne(view, offset) == (view.m_baseOffset + ToSizeT(offset) + 1) % SizeTMod

\* (fault) stringPut clamping a negative relative offset to the base
PutOffset_Clamped(view, offset) ==
    IF offset < 0 THEN view.m_baseOffset
    ELSE (view.m_baseOffset + ToSizeT(offset)) % SizeTMod

\* m_baseOffset + offset in stringPut: the int operand is converted to size_t.
PutOffset(view, offset) == (view.m_baseOffset + ToSizeT(offset)) % SizeTMod

\* The member initialisers of the constructor, in declaration order.
FlyweightInit(buffer, offset) ==
    LET o == overlayStruct(buffer, offset)
    IN [fault |-> o.fault,
        view |-> [constructed |-> TRUE,
                  m_struct |-> o.ref,
                  m_buffer |-> CopyHandle(buffer),
                  m_baseOffset |-> offset]]

\* (fault) stringGet answering a fault of the buffer with the empty string
stringGet_Swallow(h, view, offset) ==
    LET r == getStringUtf8(h, view.m_buffer, GetOffset(view, offset))
    IN IF r.fault = "none" THEN r ELSE [fault |-> "none", value |-> <<>>]

stringGet(h, view, offset) ==
    getStringUtf8(h, view.m_buffer, GetOffset(view, offset))

\* (fault) stringPut returning the size of the bytes without the length field
stringPut_PayloadSize(h, view, offset, s) ==
    LET r == putStringUtf8(h, view.m_buffer, PutOffset(view, offset), s)
    IN IF r.fault = "none" THEN [r EXCEPT !.value = @ - LengthPrefixSize] ELSE r

\* (fault) a stringPut that refuses to store over a field of another length
stringPut_RejectResize(h, view, offset, s) ==
    LET abs == PutOffset(view, offset)
        old == getStringUtf8(h, view.m_buffer, abs)
    IN IF old.fault = "none" /\ old.value # <<>>
          /\ Len(Utf8Encode(old.value)) # Len(Utf8Encode(s))
       THEN [fault |-> "BoundsFault", value |-> 0, heap |-> h]
       ELSE putStringUtf8(h, view.m_buffer, abs, s)

stringPut(h, view, offset, s) ==
    putStringUtf8(h, view.m_buffer, PutOffset(view, offset), s)

\* A fixed field of the record: byte i of the bytes m_struct refers to.
FieldGet(h, view, i) == h[view.m_struct.store][view.m_struct.at + i]

FieldPut(h, view, i, b) ==
    [h EXCEPT ![view.m_struct.store][view.m_struct.at + i] = b]

(***************************************************************************)
(* The state: the storage, the views, the outcome of the latest call, and  *)
(* the successful writes so far (a history used to state the properties).  *)
(***************************************************************************)
Call(op, v, off, abs, s, fault, str, n, val) ==
    [op |-> op, view |-> v, off |-> off, abs |-> abs, s |-> s,
     fault |-> fault, str |-> str, n |-> n, val |-> val]

NoCall == Call("none", 0, 0, 0, <<>>, "none", <<>>, 0, 0)

Write(kind, v, off, store, abs, n, s, val) ==
    [kind |-> kind, view |-> v, off |-> off, store |-> store, abs |-> abs,
     n |-> n, s |-> s, val |-> val]

Init ==
    /\ heap = [st \in Stores |-> [i \in 0..(Capacity - 1) |-> 0]]
    /\ views = [v \in ViewIds |-> NoView]
    /\ last = NoCall
    /\ log = <<>>

\* (fault) a constructor whose m_buffer is a deep copy with storage of its own
Construct_DeepCopy(v, offset) ==
    /\ ~views[v].constructed
    /\ \A u \in ViewIds : u < v => views[u].constructed
    /\ LET r == FlyweightInit(CallerBuffer, offset)
       IN /\ views' = IF r.fault = "none"
                      THEN [views EXCEPT ![v] = [r.view EXCEPT !.m_buffer.store = v]]
                      ELSE views
          /\ heap' = IF r.fault = "none" THEN [heap EXCEPT ![v] = heap[0]] ELSE heap
          /\ last' = Call("construct", v, offset, offset, <<>>, r.fault, <<>>, 0, 0)
    /\ UNCHANGED log

\* Flyweight(buffer, offset); view ids number the views in order of
\* construction, and a constructor that throws leaves no view behind.
ConstructOn(buffer, v, offset) ==
    /\ ~views[v].constructed
    /\ \A u \in ViewIds : u < v => views[u].constructed
    /\ LET r == FlyweightInit(buffer, offset)
       IN /\ views' = IF r.fault = "none" THEN [views EXCEPT ![v] = r.view] ELSE views
          /\ last' = Call("construct", v, offset, offset, <<>>, r.fault, <<>>, 0, 0)
    /\ UNCHANGED <<heap, log>>

Construct(v, offset) == ConstructOn(CallerBuffer, v, offset)

\* (fault) a stringGet that clears the length field it has read
StringGet_Consuming(v, offset) ==
    /\ views[v].constructed
    /\ LET r == stringGet(heap, views[v], offset)
           abs == GetOffset(views[v], offset)
       IN /\ last' = Call("stringGet", v, offset, abs, <<>>, r.fault, r.value, 0, 0)
          /\ heap' = IF r.fault = "none"
                     THEN [heap EXCEPT ![views[v].m_buffer.store] =
                              StoreBytes(@, abs, EncodeLength(0))]
                     ELSE heap
    /\ UNCHANGED <<views, log>>

\* stringGet(offset) through view v
StringGet(v, offset) ==
    /\ views[v].constructed
    /\ LET r == stringGet(heap, views[v], offset)
       IN last' = Call("stringGet", v, offset, GetOffset(views[v], offset), <<>>,
                       r.fault, r.value, 0, 0)
    /\ UNCHANGED <<heap, views, log>>

\* stringPut(offset, s) through view v
StringPut(v, offset, s) ==
    /\ views[v].constructed
    /\ LET r == stringPut(heap, views[v], offset, s)
           abs == PutOffset(views[v], offset)
       IN /\ heap' = r.heap
          /\ last' = Call("stringPut", v, offset, abs, s, r.fault, <<>>, r.value, 0)
          /\ log' = IF r.fault = "none"
                    THEN Append(log, Write("string", v, offset, views[v].m_buffer.store,
                                           abs, r.value, s, 0))
                    ELSE log
    /\ UNCHANGED views

\* a read of fixed field i through the typed reference of view v
FieldRead(v, i) ==
    /\ views[v].constructed
    /\ last' = Call("fieldRead", v, i, views[v].m_struct.at + i, <<>>, "none", <<>>,
                    0, FieldGet(heap, views[v], i))
    /\ UNCHANGED <<heap, views, log>>

\* a write of fixed field i through the typed reference of view v
FieldWrite(v, i, b) ==
    /\ views[v].constructed
    /\ heap' = FieldPut(heap, views[v], i, b)
    /\ last' = Call("fieldWrite", v, i, views[v].m_struct.at + i, <<>>, "none", <<>>,
                    0, b)
    /\ log' = Append(log, Write("field", v, i, views[v].m_struct.store,
                                views[v].m_struct.at + i, 1, <<>>, b))
    /\ UNCHANGED views

DoConstruct == \E v \in ViewIds, offset \in BaseOffsets : Construct(v, offset)

DoStringGet == \E v \in ViewIds, offset \in GetOffsets : StringGet(v, offset)

DoStringPut ==
    /\ Len(log) < MaxWrites
    /\ \E v \in ViewIds, offset \in PutOffsets, s \in Strings : StringPut(v, offset, s)

DoFieldRead == \E v \in ViewIds, i \in 0..(RecordSize - 1) : FieldRead(v, i)

DoFieldWrite ==
    /\ Len(log) < MaxWrites
    /\ \E v \in ViewIds, i \in 0..(RecordSize - 1), b \in FieldValues : FieldWrite(v, i, b)

Next == DoConstruct \/ DoStringGet \/ DoStringPut \/ DoFieldRead \/ DoFieldWrite

Spec == Init /\ [][Next]_vars

(***************************************************************************)
(* The chaining scenario: one view; field A is put at a relative offset,   *)
(* field B at that offset plus the value the first put returned, then A is *)
(* put again in place with a string of another encoded length.  Reads may  *)
(* come at any time.                                                       *)
(***************************************************************************)
ChainInit ==
    /\ heap = [st \in Stores |-> [i \in 0..(ChainCapacity - 1) |-> 0]]
    /\ views = [v \in ViewIds |-> NoView]
    /\ last = NoCall
    /\ log = <<>>

ChainConstruct == \E offset \in ChainBases : ConstructOn(ChainBuffer, 1, offset)

ChainPutA ==
    /\ Len(log) = 0
    /\ \E offset \in ChainOffsets, s \in ChainStrings : StringPut(1, offset, s)

ChainPutB ==
    /\ Len(log) = 1
    /\ \E s \in ChainStrings : StringPut(1, log[1].off + log[1].n, s)

ChainRewriteA ==
    /\ Len(log) = 2
    /\ \E s \in ChainStrings :
          /\ Len(Utf8Encode(s)) # Len(Utf8Encode(log[1].s))
          /\ StringPut(1, log[1].off, s)

ChainGet == \E offset \in ChainGetOffsets : StringGet(1, offset)

ChainNext == ChainConstruct \/ ChainPutA \/ ChainPutB \/ ChainRewriteA \/ ChainGet

SpecChain == ChainInit /\ [][ChainNext]_vars

(***************************************************************************)
(* Properties.                                                             *)
(***************************************************************************)
\* Two writes that touch a common byte of the same storage.
Overlap(a, b) == a.store = b.store /\ a.abs < b.abs + b.n /\ b.abs < a.abs + a.n

\* The writes no later write has touched.
Live == {i \in 1..Len(log) : \A j \in (i + 1)..Len(log) : ~Overlap(log[i], log[j])}

BaseOf(v) == views[v].m_baseOffset

\* C1 (round trip): a stringGet through a view, at the relative offset of an
\* earlier successful stringPut through the same view whose bytes no later
\* write has touched, returns without fault exactly the string that was put.
C1_RoundTrip ==
    last.op = "stringGet" =>
        \A i \in Live :
            (log[i].kind = "string" /\ log[i].view = last.view
                /\ ToSizeT(log[i].off) = last.off)
            => (last.fault = "none" /\ last.str = log[i].s)

C1_Witness ==
    /\ last.op = "stringGet"
    /\ last.str = <<233>>
    /\ BaseOf(last.view) = RecordSize
    /\ \E i \in Live : /\ log[i].kind = "string"
                        /\ log[i].view = last.view
                        /\ ToSizeT(log[i].off) = last.off
                        /\ log[i].s = <<233>>

\* C2 (size contract): a successful stringPut(off, s) returns the size of the
\* length field plus the number of UTF-8 bytes of s; the bytes from
\* base_offset + off up to that many hold the length and the encoding, and no
\* other byte of any storage changes.
C2_SizeContract ==
    [][(last'.op = "stringPut" /\ last'.fault = "none" /\ Len(log') = Len(log) + 1)
       => LET first == BaseOf(last'.view) + last'.off
              bytes == Utf8Encode(last'.s)
              mem   == heap'[CallerBuffer.store]
          IN /\ last'.n = LengthPrefixSize + Len(bytes)
             /\ first >= 0 /\ first + last'.n <= Capacity
             /\ BytesAt(mem, first, last'.n) = EncodeLength(Len(bytes)) \o bytes
             /\ \A st \in Stores : \A i \in 0..(Capacity - 1) :
                    (st # CallerBuffer.store \/ i < first \/ i >= first + last'.n)
                    => heap'[st][i] = heap[st][i]]_vars

C2_Witness ==
    /\ last.op = "stringPut" /\ last.fault = "none"
    /\ last.s = <<233>> /\ last.n = 6
    /\ BaseOf(last.view) = RecordSize /\ last.off = 1
    /\ Len(log) = MaxWrites

\* Two constructed views bound to the same offset of the caller's buffer.
SameBinding(v, w) ==
    /\ views[v].constructed /\ views[w].constructed
    /\ BaseOf(v) = BaseOf(w)

\* C4 (aliasing): every view's buffer handle and typed reference are onto the
\* storage of the caller's buffer, and a stringGet or a fixed-field read
\* through a view returns what was written last to those bytes through any
\* view bound to the same offset.
C4_Aliasing ==
    /\ \A v \in ViewIds : views[v].constructed =>
           /\ views[v].m_buffer.store = CallerBuffer.store
           /\ views[v].m_struct.store = CallerBuffer.store
    /\ last.op = "stringGet" =>
           \A i \in Live :
               (log[i].kind = "string" /\ SameBinding(log[i].view, last.view)
                   /\ ToSizeT(log[i].off) = last.off)
               => (last.fault = "none" /\ last.str = log[i].s)
    /\ last.op = "fieldRead" =>
           \A i \in Live :
               (log[i].kind = "field" /\ SameBinding(log[i].view, last.view)
                   /\ log[i].off = last.off)
               => last.val = log[i].val

C4_Witness ==
    /\ last.op = "stringGet" /\ last.str = <<97>>
    /\ Len(log) = 2
    /\ log[1].view # log[2].view
    /\ SameBinding(1, 2)
    /\ log[1].kind = "string" /\ log[2].kind = "string"
    /\ log[1].off = log[2].off /\ log[1].s = <<233>> /\ log[2].s = <<97>>
    /\ last.view = log[1].view /\ last.off = ToSizeT(log[1].off)

\* The bytes a stringGet at relative offset r through view w reads in heap h:
\* the length field if it lies within the capacity, and the bytes it counts if
\* they do.
ReadRange(h, w, r) ==
    LET abs == (BaseOf(w) + r) % SizeTMod
    IN IF OutOfBounds(CallerBuffer, abs, LengthPrefixSize) THEN [abs |-> abs, n |-> 0]
       ELSE LET length == DecodeLength(BytesAt(h[CallerBuffer.store], abs, LengthPrefixSize))
            IN IF OutOfBounds(CallerBuffer, abs + LengthPrefixSize, length)
               THEN [abs |-> abs, n |-> LengthPrefixSize]
               ELSE [abs |-> abs, n |-> LengthPrefixSize + length]

Disjoint(a1, n1, a2, n2) == a1 + n1 <= a2 \/ a2 + n2 <= a1

\* C5 (disjoint independence): a successful write through one view (stringPut
\* or fixed field) addressing the bytes [first, first + n) leaves unchanged
\* what every other view reads from bytes outside that range: the fixed
\* fields of a record that does not overlap it, and the result of every
\* stringGet whose length field and bytes do not overlap it.
C5_DisjointIndependence ==
    [][(last'.op \in {"stringPut", "fieldWrite"} /\ Len(log') = Len(log) + 1)
       => LET v == last'.view
              first == BaseOf(v) + last'.off
              n == IF last'.op = "stringPut"
                   THEN LengthPrefixSize + Len(Utf8Encode(last'.s)) ELSE 1
          IN \A w \in ViewIds \ {v} : views[w].constructed =>
                /\ Disjoint(first, n, BaseOf(w), RecordSize)
                   => \A i \in 0..(RecordSize - 1) :
                          FieldGet(heap', views[w], i) = FieldGet(heap, views[w], i)
                /\ \A r \in GetOffsets :
                       LET rd == ReadRange(heap, w, r)
                       IN Disjoint(first, n, rd.abs, rd.n)
                          => stringGet(heap', views[w], r) = stringGet(heap, views[w], r)]_vars

C5_Witness ==
    /\ last.op = "stringPut" /\ last.fault = "none" /\ last.view = 2
    /\ BaseOf(1) = 0 /\ BaseOf(2) = RecordSize /\ views[1].constructed
    /\ last.off = 4 /\ last.s = <<>>
    /\ Len(log) = 2 /\ log[1].view = 1 /\ log[1].kind = "string"
    /\ log[1].off = 1 /\ log[1].s = <<97>>

\* The absolute offset a string accessor's relative offset translates to.
Translated(v, r) == (BaseOf(v) + ToSizeT(r)) % SizeTMod

\* C6 (bounds violation): a constructor whose record range, or a stringGet or
\* stringPut whose addressed range (the length field and the bytes it counts),
\* exceeds the capacity ends in a BoundsFault and changes no byte.
C6_BoundsViolation ==
    [][LET abs == Translated(last'.view, last'.off)
           exceeds ==
               \/ /\ last'.op = "construct"
                  /\ last'.off + RecordSize > Capacity
               \/ /\ last'.op = "stringPut"
                  /\ abs + LengthPrefixSize + Len(Utf8Encode(last'.s)) > Capacity
               \/ /\ last'.op = "stringGet"
                  /\ \/ abs + LengthPrefixSize > Capacity
                     \/ DecodeLength(BytesAt(heap[CallerBuffer.store], abs,
                                             LengthPrefixSize))
                          > Capacity - abs - LengthPrefixSize
       IN exceeds => (last'.fault = "BoundsFault" /\ heap' = heap)]_vars

C6_Witness ==
    /\ last.op = "stringPut" /\ last.fault = "BoundsFault"
    /\ BaseOf(last.view) = RecordSize
    /\ last.off = Capacity - LengthPrefixSize - RecordSize /\ last.s = <<97>>
    /\ Len(log) > 0

\* C7 (pass-through): a constructor, stringGet or stringPut ends in exactly
\* the fault (or absence of fault) that the buffer's overlayStruct,
\* getStringUtf8 or putStringUtf8 reports at the translated offset.
C7_PassThrough ==
    [][LET abs == Translated(last'.view, last'.off)
       IN /\ last'.op = "construct" =>
                 /\ last'.fault = overlayStruct(CallerBuffer, last'.off).fault
                 /\ views'[last'.view].constructed = (last'.fault = "none")
          /\ last'.op = "stringGet" =>
                 last'.fault = getStringUtf8(heap, CallerBuffer, abs).fault
          /\ last'.op = "stringPut" =>
                 last'.fault = putStringUtf8(heap, CallerBuffer, abs, last'.s).fault]_vars

C7_Witness ==
    /\ last.op = "stringGet" /\ last.fault = "EncodingFault"

\* C8 (pure read): a stringGet, whether it succeeds or faults, changes no
\* byte of any storage and no view, and a stringGet that follows a stringGet
\* through the same view at the same offset returns the same result.
C8_PureRead ==
    [][last'.op = "stringGet"
       => /\ heap' = heap
          /\ views' = views
          /\ (last.op = "stringGet" /\ last.view = last'.view /\ last.off = last'.off)
             => last' = last]_vars

C8_Witness ==
    /\ last.op = "stringGet" /\ last.fault = "none" /\ last.str = <<97>>
    /\ Len(log) > 0

\* C9 as stated: both accessors address base_offset + r for every r of their
\* parameter type, and never an offset below the base.
C9_Original ==
    last.op \in {"stringGet", "stringPut"} =>
        /\ last.abs = BaseOf(last.view) + last.off
        /\ last.abs >= BaseOf(last.view)

\* C9 (offset translation), amended: both accessors address
\* (base_offset + r) modulo the range of size_t, r converted to size_t; for
\* 0 <= r with base_offset + r within that range this is base_offset + r, not
\* below the base and the same in both accessors; a negative r handed to
\* stringPut with base_offset + r >= 0 addresses base_offset + r, below the
\* base, and an r handed to stringGet that wraps addresses
\* base_offset + r - 2^w, below the base.
C9_Translation ==
    last.op \in {"stringGet", "stringPut"} =>
        LET b == BaseOf(last.view)
            r == last.off
        IN /\ last.abs = (b + ToSizeT(r)) % SizeTMod
           /\ (r >= 0 /\ b + r < SizeTMod) => (last.abs = b + r /\ last.abs >= b)
           /\ (r < 0 /\ b + r >= 0) => (last.abs = b + r /\ last.abs < b)
           /\ (r >= 0 /\ b + r >= SizeTMod) => (last.abs = b + r - SizeTMod /\ last.abs < b)

C9_Witness ==
    /\ last.op = "stringPut" /\ last.fault = "none"
    /\ last.off = -1 /\ BaseOf(last.view) = RecordSize
    /\ last.abs = RecordSize - 1

(***************************************************************************)
(* Properties of the chaining scenario (SpecChain).                        *)
(***************************************************************************)
\* What a stringGet through the scenario's view returns now at the relative
\* offset r of an earlier stringPut.
ReadAt(r) == stringGet(heap, views[1], ToSizeT(r))

Yields(rd, s) == rd.fault = "none" /\ rd.value = s

\* C3 (offset chaining): once A is put at o, returning n, and B at o + n, the
\* puts have returned the length field's size plus the UTF-8 size of A and of
\* B, stringGet(o) yields A and stringGet(o + n) yields B, both as the view's
\* state stands and in every stringGet actually made at those offsets.
C3_OffsetChaining ==
    Len(log) = 2 =>
        LET a == log[1]
            b == log[2]
        IN /\ a.n = LengthPrefixSize + Len(Utf8Encode(a.s))
           /\ b.n = LengthPrefixSize + Len(Utf8Encode(b.s))
           /\ b.off = a.off + a.n
           /\ Yields(ReadAt(a.off), a.s)
           /\ Yields(ReadAt(b.off), b.s)
           /\ (last.op = "stringGet" /\ last.off = ToSizeT(a.off))
              => (last.fault = "none" /\ last.str = a.s)
           /\ (last.op = "stringGet" /\ last.off = ToSizeT(b.off))
              => (last.fault = "none" /\ last.str = b.s)

C3_Witness ==
    /\ Len(log) = 2
    /\ BaseOf(1) = 0
    /\ log[1].off = RecordSize /\ log[1].s = <<97>> /\ log[1].n = 5
    /\ log[2].off = RecordSize + 5 /\ log[2].s = <<>> /\ log[2].n = 4
    /\ last.op = "stringGet" /\ last.off = RecordSize + 5 /\ last.str = <<>>
    /\ last.fault = "none"

\* The state after A was put again in place with another encoded length.
Rewritten == Len(log) = 3

Grew == log[3].n > log[1].n

\* No byte of the UTF-8 encoding of s is below 0x20.
TextBytes(s) == \A i \in DOMAIN Utf8Encode(s) : Utf8Encode(s)[i] >= 32

\* C10 as stated, in its weakest reading: after the rewrite, B is no longer
\* read back at the offset chained from A's new size, or, A having grown, is
\* no longer read back at its old offset.  (The stronger reading, that neither
\* of the reads named yields B, implies this one.)
C10_Original ==
    Rewritten =>
        \/ ~Yields(ReadAt(log[3].off + log[3].n), log[2].s)
        \/ Grew /\ ~Yields(ReadAt(log[2].off), log[2].s)

\* C10 (layout corruption), amended: the rewrite is stored without a fault
\* whenever it fits the buffer, A reads back as rewritten, and the offset
\* chained from A's new size is no longer the offset B was put at.  With A
\* and its replacement free of bytes below 0x20, B shorter than 32 bytes and
\* the buffer zero-filled before: a read at B's old offset no longer yields B
\* when A grew (and still yields B when A shrank), and a read at the newly
\* chained offset no longer yields B when A shrank, or when A grew and B is
\* not empty.
C10_LayoutCorruption ==
    /\ (Len(log) = 2 /\ last.op = "stringPut" /\ last.off = log[1].off
           /\ last.fault # "none")
       => last.abs + LengthPrefixSize + Len(Utf8Encode(last.s)) > ChainCapacity
    /\ Rewritten =>
           LET a == log[1]
               b == log[2]
               c == log[3]
               old == ReadAt(b.off)
               new == ReadAt(c.off + c.n)
           IN /\ last.op = "stringPut" => last.fault = "none"
              /\ Yields(ReadAt(c.off), c.s)
              /\ c.off + c.n # b.off
              /\ (TextBytes(a.s) /\ TextBytes(c.s) /\ Len(Utf8Encode(b.s)) < 32)
                 => /\ Grew => ~Yields(old, b.s)
                    /\ ~Grew => Yields(old, b.s)
                    /\ ~Grew => ~Yields(new, b.s)
                    /\ (Grew /\ b.s # <<>>) => ~Yields(new, b.s)

C10_Witness ==
    /\ Rewritten
    /\ BaseOf(1) = RecordSize
    /\ log[1].off = RecordSize /\ log[1].s = <<>>
    /\ log[2].s = <<97>>
    /\ log[3].s = <<233>>
    /\ last.op = "stringGet" /\ last.off = log[2].off /\ last.fault = "BoundsFault"

====
